---- MODULE Spec2Model ----
(***************************************************************************)
(* Model of elastic_importer (src/src/main.rs): a CSV tokenizer, a record  *)
(* stream, a JSON document encoder, a batch assembler and a driver that    *)
(* uploads the batches with one blocking HTTP request each.                *)
(*                                                                         *)
(* A Rust String is modelled as the sequence of its UTF-8 bytes (numbers   *)
(* 0..255); a Vec as a sequence.  Indices into buf are 0-based as in the   *)
(* source, so byte i of buf is buf[i + 1].                                 *)
(***************************************************************************)
EXTENDS Integers, Sequences, FiniteSets, TLC

VARIABLES
    pc,          \* position of main (or of the tokenizer harness)
    host,        \* args.host
    target,      \* main's target, NoTarget before parse_http_target returned Ok
    batch_size,  \* args.batch_size
    index_name,  \* args.index_name
    file_exists, \* Path::new(&args.csv_file).exists()
    file,        \* the bytes of the CSV file
    buf,         \* CsvReader.buf
    idx,         \* CsvReader.idx
    headers,     \* CsvIter.headers
    batch,       \* main's batch: Vec<String>
    total_docs,  \* main's total_docs
    phase,       \* which call site of http_post_bulk is active
    body,        \* the body argument of the active http_post_bulk call
    conn,        \* number of open TcpStreams
    probe,       \* how far es_ping got: none, refused, write_failed, read_failed, answered
    ping_resp,   \* the response es_ping read, when probe = "answered"
    wire,        \* the request bodies written to a socket, in order
    calls,       \* the bodies handed to http_post_bulk, in order
    dispatched,  \* the bodies whose http_post_bulk returned Ok, in order
    rows,        \* the rows CsvIter::next has returned, in order
    records,     \* the records next_record has returned to the harness
    warnings,    \* number of "Bulk errors detected" lines on stderr
    reported,    \* the counts printed on stdout: none, or one at the end
    error,       \* the error main returned, NoError before
    value,       \* the argument of an infer_type call of the value harness
    out          \* what that call returned

vars == <<pc, host, target, batch_size, index_name, file_exists, file, buf, idx, headers,
          batch, total_docs, phase, body, conn, probe, ping_resp, wire, calls,
          dispatched, rows, records, warnings, reported, error, value, out>>

----------------------------------------------------------------------------
(* Bytes the source names.                                                 *)
LF == 10
CR == 13
TAB == 9
SPACE == 32
QUOTE == 34
COMMA == 44
BACKSLASH == 92

(* Bounds of the model.                                                    *)
MaxLen == 4         \* units of text in a tokenizer input
MaxRows == 5        \* data lines of a driver input
MaxBatch == 3       \* largest --batch-size

\* nothing printed yet
NoReport == <<>>
NoError == "none"

----------------------------------------------------------------------------
(* Sequence helpers.                                                       *)

RECURSIVE Flatten(_)
Flatten(ss) == IF ss = <<>> THEN <<>> ELSE Head(ss) \o Flatten(Tail(ss))

RECURSIVE Join(_, _)
\* [String]::join(sep)
Join(ss, sep) ==
    IF ss = <<>> THEN <<>>
    ELSE IF Len(ss) = 1 THEN ss[1]
    ELSE ss[1] \o sep \o Join(Tail(ss), sep)

SeqsUpTo(S, n) == UNION {[1..k -> S] : k \in 0..n}

\* str::starts_with
StartsWith(s, p) == Len(s) >= Len(p) /\ SubSeq(s, 1, Len(p)) = p

\* str::contains
Contains(s, p) ==
    \E k \in 0..(Len(s) - Len(p)) : SubSeq(s, k + 1, k + Len(p)) = p

----------------------------------------------------------------------------
(* CsvReader::next_record.                                                 *)

\* `b as char` followed by String::push: the char U+00b, as UTF-8
PushChar(field, b) ==
    IF b < 128 THEN Append(field, b)
    ELSE field \o <<192 + (b \div 64), 128 + (b % 64)>>

\* DoubledQuoteAt never seeing the second quote
DoubledQuoteNever(bytes, i) == FALSE

\* line 174: the quote at i is followed by another quote
DoubledQuoteAt(bytes, i) == i + 1 < Len(bytes) /\ bytes[i + 2] = QUOTE

\* line 205: the carriage return at i is followed by a line feed
CrLfAt(bytes, i) == i + 1 < Len(bytes) /\ bytes[i + 2] = LF

RECURSIVE Scan(_, _, _, _, _)
\* the while loop of next_record, from position i to its exit
Scan(bytes, i, fields, field, in_quotes) ==
    IF ~(i < Len(bytes)) THEN [i |-> i, fields |-> fields, field |-> field]
    ELSE
      LET c == bytes[i + 1] IN
      IF in_quotes THEN
        IF c = QUOTE THEN
          IF DoubledQuoteAt(bytes, i)
          THEN Scan(bytes, i + 2, fields, PushChar(field, QUOTE), TRUE)
          ELSE Scan(bytes, i + 1, fields, field, FALSE)
        ELSE Scan(bytes, i + 1, fields, PushChar(field, c), TRUE)
      ELSE
        CASE c = QUOTE -> Scan(bytes, i + 1, fields, field, TRUE)
          [] c = COMMA -> Scan(bytes, i + 1, Append(fields, field), <<>>, FALSE)
          [] c = LF ->
               [i |-> i + 1, fields |-> Append(fields, field), field |-> <<>>]
          [] c = CR ->
               IF CrLfAt(bytes, i)
               THEN [i |-> i + 2, fields |-> Append(fields, field), field |-> <<>>]
               ELSE [i |-> i + 1, fields |-> Append(fields, field), field |-> <<>>]
          [] OTHER -> Scan(bytes, i + 1, fields, PushChar(field, c), FALSE)

\* next_record returning its record without moving self.idx
NextRecordStuck(bytes, at) ==
    IF at >= Len(bytes) THEN [some |-> FALSE, rec |-> <<>>, idx |-> at]
    ELSE
      LET s == Scan(bytes, at, <<>>, <<>>, FALSE)
          fields == IF s.i >= Len(bytes) /\ (s.field # <<>> \/ s.fields # <<>>)
                    THEN Append(s.fields, s.field)
                    ELSE s.fields
      IN  IF fields = <<>> /\ s.i >= Len(bytes)
          THEN [some |-> FALSE, rec |-> <<>>, idx |-> s.i]
          ELSE [some |-> TRUE, rec |-> fields, idx |-> at]

\* the result of next_record: some = FALSE is None; idx is self.idx afterwards
next_record(bytes, at) ==
    IF at >= Len(bytes) THEN [some |-> FALSE, rec |-> <<>>, idx |-> at]
    ELSE
      LET s == Scan(bytes, at, <<>>, <<>>, FALSE)
          fields == IF s.i >= Len(bytes) /\ (s.field # <<>> \/ s.fields # <<>>)
                    THEN Append(s.fields, s.field)
                    ELSE s.fields
      IN  IF fields = <<>> /\ s.i >= Len(bytes)
          THEN [some |-> FALSE, rec |-> <<>>, idx |-> s.i]
          ELSE [some |-> TRUE, rec |-> fields, idx |-> s.i]

----------------------------------------------------------------------------
(* CsvIter: the record stream.                                             *)

\* char::is_whitespace for the one-byte chars
AsciiWhitespace == {9, 10, 11, 12, 13, 32}

\* does s start with a whitespace char: a one-byte one, or U+0085 or U+00A0,
\* the only other whitespace chars that PushChar can produce
WsPrefixLen(s) ==
    IF s = <<>> THEN 0
    ELSE IF s[1] \in AsciiWhitespace THEN 1
    ELSE IF Len(s) >= 2 /\ s[1] = 194 /\ s[2] \in {133, 160} THEN 2
    ELSE 0

WsSuffixLen(s) ==
    IF s = <<>> THEN 0
    ELSE IF s[Len(s)] \in AsciiWhitespace THEN 1
    ELSE IF Len(s) >= 2 /\ s[Len(s) - 1] = 194 /\ s[Len(s)] \in {133, 160} THEN 2
    ELSE 0

RECURSIVE TrimStart(_)
TrimStart(s) ==
    IF WsPrefixLen(s) = 0 THEN s
    ELSE TrimStart(SubSeq(s, WsPrefixLen(s) + 1, Len(s)))

RECURSIVE TrimEnd(_)
TrimEnd(s) ==
    IF WsSuffixLen(s) = 0 THEN s
    ELSE TrimEnd(SubSeq(s, 1, Len(s) - WsSuffixLen(s)))

\* str::trim
Trim(s) == TrimEnd(TrimStart(s))

\* CsvIter::from_reader: the header is the first record, or empty
from_reader(bytes) ==
    LET r == next_record(bytes, 0)
    IN  [headers |-> IF r.some THEN r.rec ELSE <<>>, idx |-> r.idx]

\* MakeRow joining only the positions the header and the record both have
MakeRowShortest(hdrs, rec) ==
    [i \in 1..(IF Len(rec) < Len(hdrs) THEN Len(rec) ELSE Len(hdrs)) |->
        <<hdrs[i], Trim(rec[i])>>]

\* the row CsvIter::next builds from a record: one <<name, value>> per header
MakeRow(hdrs, rec) ==
    [i \in 1..Len(hdrs) |->
        <<hdrs[i], IF i <= Len(rec) THEN Trim(rec[i]) ELSE <<>>>>]

\* CsvIter::next: some = FALSE is None
CsvIter_next(hdrs, bytes, at) ==
    LET r == next_record(bytes, at)
    IN  IF ~r.some THEN [some |-> FALSE, row |-> <<>>, idx |-> r.idx]
        ELSE IF r.rec = <<>> THEN [some |-> FALSE, row |-> <<>>, idx |-> r.idx]
        ELSE [some |-> TRUE, row |-> MakeRow(hdrs, r.rec), idx |-> r.idx]

----------------------------------------------------------------------------
(* json_escape.                                                            *)

HexDigit(n) == IF n < 10 THEN 48 + n ELSE 87 + n

\* the escape of one byte of the string; bytes of multi-byte chars pass
EscapeChar(c) ==
    CASE c = BACKSLASH -> <<BACKSLASH, BACKSLASH>>
      [] c = QUOTE -> <<BACKSLASH, QUOTE>>
      [] c = LF -> <<BACKSLASH, 110>>
      [] c = CR -> <<BACKSLASH, 114>>
      [] c = TAB -> <<BACKSLASH, 116>>
      [] c < SPACE /\ c \notin {LF, CR, TAB} ->
           <<BACKSLASH, 117, 48, 48, HexDigit(c \div 16), HexDigit(c % 16)>>
      [] OTHER -> <<c>>

RECURSIVE json_escape(_)
json_escape(s) ==
    IF s = <<>> THEN <<>> ELSE EscapeChar(Head(s)) \o json_escape(Tail(s))

----------------------------------------------------------------------------
(* infer_type.                                                             *)

PLUS == 43
MINUS == 45
DOT == 46
ZERO == 48

IsDigit(c) == c \in 48..57
AllDigits(s) == \A i \in 1..Len(s) : IsDigit(s[i])
HasSign(s) == s # <<>> /\ s[1] \in {PLUS, MINUS}
Unsigned(s) == IF HasSign(s) THEN Tail(s) ELSE s
IsNegative(s) == s # <<>> /\ s[1] = MINUS

RECURSIVE StripLeadingZeros(_)
StripLeadingZeros(d) ==
    IF d # <<>> /\ d[1] = ZERO THEN StripLeadingZeros(Tail(d)) ELSE d

RECURSIVE StripTrailingZeros(_)
StripTrailingZeros(d) ==
    IF d # <<>> /\ d[Len(d)] = ZERO
    THEN StripTrailingZeros(SubSeq(d, 1, Len(d) - 1)) ELSE d

RECURSIVE LexLess(_, _)
\* a < b for digit strings of one length
LexLess(a, b) ==
    IF a = <<>> THEN FALSE
    ELSE IF a[1] # b[1] THEN a[1] < b[1]
    ELSE LexLess(Tail(a), Tail(b))

\* a <= b for the numbers two digit strings without leading zeros denote
DigitsLeq(a, b) ==
    \/ Len(a) < Len(b)
    \/ Len(a) = Len(b) /\ (a = b \/ LexLess(a, b))

\* i64::MAX and -i64::MIN in decimal
I64MaxDigits == <<57, 50, 50, 51, 51, 55, 50, 48, 51, 54, 56, 53, 52, 55, 55, 53, 56, 48, 55>>
I64MinDigits == <<57, 50, 50, 51, 51, 55, 50, 48, 51, 54, 56, 53, 52, 55, 55, 53, 56, 48, 56>>

\* i64::from_str(s).is_ok(): an optional sign, one digit or more, in range
IsI64(s) ==
    /\ Unsigned(s) # <<>>
    /\ AllDigits(Unsigned(s))
    /\ DigitsLeq(StripLeadingZeros(Unsigned(s)),
                 IF IsNegative(s) THEN I64MinDigits ELSE I64MaxDigits)

\* i64::to_string of the value of s
I64ToString(s) ==
    LET d == StripLeadingZeros(Unsigned(s))
    IN  IF d = <<>> THEN <<ZERO>>
        ELSE IF IsNegative(s) THEN <<MINUS>> \o d
        ELSE d

\* str::to_lowercase, on the one-byte chars (no other char lowers to one)
Lower(s) == [i \in 1..Len(s) |-> IF s[i] \in 65..90 THEN s[i] + 32 ELSE s[i]]

StrNull == <<110, 117, 108, 108>>
StrTrue == <<116, 114, 117, 101>>
StrFalse == <<102, 97, 108, 115, 101>>
StrInf == <<105, 110, 102>>
StrInfinity == <<105, 110, 102, 105, 110, 105, 116, 121>>
StrNan == <<110, 97, 110>>
StrNaN == <<78, 97, 78>>

\* position of the first byte of s that is in set S, 0 if none
RECURSIVE FirstIn(_, _, _)
FirstIn(s, S, k) ==
    IF k > Len(s) THEN 0 ELSE IF s[k] \in S THEN k ELSE FirstIn(s, S, k + 1)

\* the parts of a decimal float literal without its sign:
\* int digits [. frac digits] [(e|E) [sign] exp digits]
FloatParts(u) ==
    LET e == FirstIn(u, {69, 101}, 1)
        m == IF e = 0 THEN u ELSE SubSeq(u, 1, e - 1)
        x == IF e = 0 THEN <<>> ELSE SubSeq(u, e + 1, Len(u))
        d == FirstIn(m, {DOT}, 1)
    IN  [int |-> IF d = 0 THEN m ELSE SubSeq(m, 1, d - 1),
         frac |-> IF d = 0 THEN <<>> ELSE SubSeq(m, d + 1, Len(m)),
         has_exp |-> e # 0,
         exp |-> x]

\* does the unsigned text u parse as a decimal float
IsDecimalFloat(u) ==
    LET p == FloatParts(u)
    IN  /\ AllDigits(p.int) /\ AllDigits(p.frac)
        /\ Len(p.int) + Len(p.frac) >= 1
        /\ p.has_exp => (Unsigned(p.exp) # <<>> /\ AllDigits(Unsigned(p.exp)))

IsInfText(u) == Lower(u) \in {StrInf, StrInfinity}
IsNanText(u) == Lower(u) = StrNan

\* f64::from_str(s).is_ok()
IsF64(s) ==
    LET u == Unsigned(s)
    IN  u # <<>> /\ (IsInfText(u) \/ IsNanText(u) \/ IsDecimalFloat(u))

RECURSIVE DigitsValue(_)
DigitsValue(d) ==
    IF d = <<>> THEN 0 ELSE 10 * DigitsValue(SubSeq(d, 1, Len(d) - 1)) + (d[Len(d)] - ZERO)

\* the exponent of a float literal; beyond 4 digits it saturates, as every
\* such exponent gives zero or infinity
ExpValue(x) ==
    LET d == StripLeadingZeros(Unsigned(x))
        v == IF Len(d) > 4 THEN 99999 ELSE DigitsValue(d)
    IN  IF IsNegative(x) THEN 0 - v ELSE v

Zeros(n) == [i \in 1..n |-> ZERO]

\* the leading digits of 2^1024 - 2^970, the least value that rounds to infinity
F64OverflowDigits == <<49, 55, 57, 55, 54, 57, 51, 49, 51, 52, 56, 54, 50, 51, 49, 53, 56, 48, 56>>

\* the decimal point notation of 0.d * 10^k, d without leading or trailing zeros
Render(d, k) ==
    IF k <= 0 THEN <<ZERO, DOT>> \o Zeros(0 - k) \o d
    ELSE IF k < Len(d) THEN SubSeq(d, 1, k) \o <<DOT>> \o SubSeq(d, k + 1, Len(d))
    ELSE d \o Zeros(k - Len(d))

\* f64::to_string of the value f64::from_str gives for s (Display: never an
\* exponent).  Exact for literals of at most 15 significant digits whose value
\* is zero, infinite or a normal f64, which covers every text the model feeds it.
F64ToString(s) ==
    LET u == Unsigned(s)
        sign == IF IsNegative(s) THEN <<MINUS>> ELSE <<>>
        p == FloatParts(u)
        lead == StripLeadingZeros(p.int \o p.frac)
        d == StripTrailingZeros(lead)
        k == Len(lead) + (IF p.has_exp THEN ExpValue(p.exp) ELSE 0) - Len(p.frac)
    IN  IF IsNanText(u) THEN StrNaN
        ELSE IF IsInfText(u) THEN sign \o StrInf
        ELSE IF d = <<>> THEN sign \o <<ZERO>>
        ELSE IF k > 309 \/ (k = 309 /\ ~LexLess(d \o Zeros(19 - Len(d)), F64OverflowDigits))
             THEN sign \o StrInf
        ELSE IF k < -323 THEN sign \o <<ZERO>>
        ELSE sign \o Render(d, k)

\* infer_type trying the float before the integer
InferFloatFirst(s) ==
    IF s = <<>> THEN StrNull
    ELSE IF IsF64(s) THEN F64ToString(s)
    ELSE IF IsI64(s) THEN I64ToString(s)
    ELSE IF Lower(s) = StrTrue THEN StrTrue
    ELSE IF Lower(s) = StrFalse THEN StrFalse
    ELSE <<QUOTE>> \o json_escape(s) \o <<QUOTE>>

\* infer_type
infer_type(s) ==
    IF s = <<>> THEN StrNull
    ELSE IF IsI64(s) THEN I64ToString(s)
    ELSE IF IsF64(s) THEN F64ToString(s)
    ELSE IF Lower(s) = StrTrue THEN StrTrue
    ELSE IF Lower(s) = StrFalse THEN StrFalse
    ELSE <<QUOTE>> \o json_escape(s) \o <<QUOTE>>

----------------------------------------------------------------------------
(* dict_to_json and the batch assembler.                                   *)

\* one member of the object: "key":value
Member(kv) == <<QUOTE>> \o json_escape(kv[1]) \o <<QUOTE, 58>> \o infer_type(kv[2])

\* dict_to_json
dict_to_json(row) ==
    <<123>> \o Join([i \in 1..Len(row) |-> Member(row[i])], <<COMMA>>) \o <<125>>

\* format!("{{\"index\":{{\"_index\":\"{}\"}}}}", args.index_name)
ActionHeader(name) ==
    <<123, 34, 105, 110, 100, 101, 120, 34, 58, 123, 34, 95, 105, 110, 100, 101, 120, 34, 58, 34>>
    \o name \o <<34, 125, 125>>

\* MakeBody without the final push
MakeBodyNoNewline(lines) == Join(lines, <<LF>>)

\* batch.join("\n") followed by body.push('\n')
MakeBody(lines) == Join(lines, <<LF>>) \o <<LF>>

----------------------------------------------------------------------------
(* main: the pipeline driver, with es_ping and http_post_bulk step by step. *)

\* "http://"
HttpPrefix == <<104, 116, 116, 112, 58, 47, 47>>
SLASH == 47
COLON == 58

\* u16::MAX in decimal
U16MaxDigits == <<54, 53, 53, 51, 53>>

\* IsU16 without the range of the type
IsU16AnyDigits(p) ==
    LET d == IF p # <<>> /\ p[1] = PLUS THEN Tail(p) ELSE p
    IN  d # <<>> /\ AllDigits(d)

\* p.parse::<u16>().is_ok(): an optional +, one digit or more, at most 65535
IsU16(p) ==
    LET d == IF p # <<>> /\ p[1] = PLUS THEN Tail(p) ELSE p
    IN  /\ d # <<>>
        /\ AllDigits(d)
        /\ DigitsLeq(StripLeadingZeros(d), U16MaxDigits)

\* the value p.parse::<u16>() gives
U16Value(p) ==
    DigitsValue(StripLeadingZeros(IF p # <<>> /\ p[1] = PLUS THEN Tail(p) ELSE p))

\* the port when no colon follows the host
DefaultPort == 9200

NoTarget == [host |-> <<>>, port |-> 0, base_path |-> <<>>]

\* parse_http_target: ok with the target, or the error message
parse_http_target(url) ==
    IF ~StartsWith(url, HttpPrefix)
    THEN [ok |-> FALSE, err |-> "Only http:// supported", target |-> NoTarget]
    ELSE
      LET rest == SubSeq(url, Len(HttpPrefix) + 1, Len(url))
          sl == FirstIn(rest, {SLASH}, 1)
          host_port == IF sl = 0 THEN rest ELSE SubSeq(rest, 1, sl - 1)
          base_path == IF sl = 0 THEN <<>> ELSE SubSeq(rest, sl, Len(rest))
          co == FirstIn(host_port, {COLON}, 1)
          h == IF co = 0 THEN host_port ELSE SubSeq(host_port, 1, co - 1)
          p == IF co = 0 THEN <<>> ELSE SubSeq(host_port, co + 1, Len(host_port))
      IN  IF co # 0 /\ ~IsU16(p)
          THEN [ok |-> FALSE, err |-> "Invalid port", target |-> NoTarget]
          ELSE [ok |-> TRUE, err |-> "",
                target |-> [host |-> h,
                            port |-> IF co = 0 THEN DefaultPort ELSE U16Value(p),
                            base_path |-> base_path]]

\* resp.starts_with("HTTP/1.1 200")
StatusOk == <<72, 84, 84, 80, 47, 49, 46, 49, 32, 50, 48, 48>>
\* PingOk looking for the status 200 anywhere in the response
PingOkAnyVersion(resp) == Contains(resp, <<32, 50, 48, 48>>)

\* PingOk looking at the protocol version only
PingOkAnyStatus(resp) == StartsWith(resp, SubSeq(StatusOk, 1, 8))
PingOk(resp) == StartsWith(resp, StatusOk)

\* resp.contains("\"errors\":true")
ErrorsTrue == <<34, 101, 114, 114, 111, 114, 115, 34, 58, 116, 114, 117, 101>>
HasBulkErrors(resp) == Contains(resp, ErrorsTrue)

\* batch.len() / 2 >= args.batch_size
BatchFull(lines, size) == Len(lines) \div 2 >= size

\* DocsIn counting lines instead of documents
DocsInLines(lines) == Len(lines)

\* batch.len() / 2, the increment of total_docs
DocsIn(lines) == Len(lines) \div 2

\* CountAfter skipping the payloads the peer reported errors for
CountAfterClean(total, lines, resp) ==
    IF HasBulkErrors(resp) THEN total ELSE total + DocsIn(lines)

\* lines 386-389 and 398-401: total_docs after a send has returned resp; the
\* response decides the warning only
CountAfter(total, lines, resp) == total + DocsIn(lines)

\* NeedsFlush without the test
AlwaysFlush(lines) == TRUE

\* !batch.is_empty()
NeedsFlush(lines) == lines # <<>>

\* the two lines main pushes for a row
RowLines(name, row) == <<ActionHeader(name), dict_to_json(row)>>

\* what the peer may answer to the probe: 200, 503, HTTP/1.0 200, nothing
PingResponses ==
    { StatusOk \o <<32, 79, 75, 13, 10, 13, 10>>,
      <<72, 84, 84, 80, 47, 49, 46, 49, 32, 53, 48, 51>>,
      <<72, 84, 84, 80, 47, 49, 46, 48, 32, 50, 48, 48>>,
      <<>> }

\* what the peer may answer to a bulk request: {"errors":false},
\* {"errors":true}, and HTTP/1.1 400
BulkResponses ==
    { <<123, 34, 101, 114, 114, 111, 114, 115, 34, 58, 102, 97, 108, 115, 101, 125>>,
      <<123>> \o ErrorsTrue \o <<125>>,
      <<72, 84, 84, 80, 47, 49, 46, 49, 32, 52, 48, 48>> }

\* Fail with a send error logged and the loop continued
FailAndContinue(msg) ==
    /\ error' = msg
    /\ pc' = IF pc \in {"post_connect", "post_write", "post_flush", "post_read"}
             THEN "next" ELSE "failed"

\* main returns Err: nothing is printed to stdout
Fail(msg) ==
    /\ pc' = "failed"
    /\ error' = msg

\* lines 351-352: parse_http_target(&args.host)?
ParseTarget ==
    /\ pc = "args"
    /\ IF parse_http_target(host).ok
       THEN /\ pc' = "start"
            /\ target' = parse_http_target(host).target
            /\ UNCHANGED error
       ELSE Fail(parse_http_target(host).err) /\ UNCHANGED target
    /\ UNCHANGED <<value, out, host, batch_size, index_name, file_exists, file, buf, idx, headers,
                   batch, total_docs, phase, body, conn, probe, ping_resp, wire,
                   calls, dispatched, rows, records, warnings, reported>>

\* line 354: the input file must exist
CheckFile ==
    /\ pc = "start"
    /\ IF file_exists
       THEN pc' = "ping_connect" /\ UNCHANGED error
       ELSE Fail("CSV file not found")
    /\ UNCHANGED <<probe, ping_resp, value, out, host, target, batch_size, index_name, file_exists, file, buf, idx, headers,
                   batch, total_docs, phase, body, conn, wire, calls,
                   dispatched, rows, records, warnings, reported>>

\* es_ping, line 324: TcpStream::connect
PingConnect ==
    /\ pc = "ping_connect"
    /\ \/ pc' = "ping_write" /\ conn' = conn + 1 /\ UNCHANGED <<error, probe>>
       \/ Fail("Cannot connect to ES") /\ probe' = "refused" /\ UNCHANGED conn
    /\ UNCHANGED <<ping_resp, value, out, host, target, batch_size, index_name, file_exists, file, buf, idx, headers,
                   batch, total_docs, phase, body, wire, calls,
                   dispatched, rows, records, warnings, reported>>

\* es_ping, line 339: write_all; on failure es_ping returns false
PingWrite ==
    /\ pc = "ping_write"
    /\ \/ pc' = "ping_read" /\ UNCHANGED <<conn, error, probe>>
       \/ Fail("Cannot connect to ES") /\ probe' = "write_failed" /\ conn' = conn - 1
    /\ UNCHANGED <<ping_resp, value, out, host, target, batch_size, index_name, file_exists, file, buf, idx, headers,
                   batch, total_docs, phase, body, wire, calls,
                   dispatched, rows, records, warnings, reported>>

\* es_ping, lines 341-342, and main, lines 363-365
PingRead ==
    /\ pc = "ping_read"
    /\ conn' = conn - 1
    /\ \/ \E resp \in PingResponses :
            /\ probe' = "answered"
            /\ ping_resp' = resp
            /\ IF PingOk(resp)
               THEN pc' = "open_csv" /\ UNCHANGED error
               ELSE Fail("Cannot connect to ES")
       \/ Fail("Cannot connect to ES") /\ probe' = "read_failed" /\ UNCHANGED ping_resp
    /\ UNCHANGED <<value, out, host, target, batch_size, index_name, file_exists, file, buf, idx, headers,
                   batch, total_docs, phase, body, wire, calls,
                   dispatched, rows, records, warnings, reported>>

\* lines 367-373: open and read the file, take the header
OpenCsv ==
    /\ pc = "open_csv"
    /\ \/ /\ pc' = "next"
          /\ buf' = file
          /\ headers' = from_reader(file).headers
          /\ idx' = from_reader(file).idx
          /\ UNCHANGED error
       \/ Fail("io error") /\ UNCHANGED <<buf, headers, idx>>
    /\ UNCHANGED <<probe, ping_resp, value, out, host, target, batch_size, index_name, file_exists, file,
                   batch, total_docs, phase, body, conn, wire, calls,
                   dispatched, rows, records, warnings, reported>>

\* lines 375-385: one iteration of the while loop, up to the call of
\* http_post_bulk when the batch is full
LoopRow ==
    /\ pc = "next"
    /\ CsvIter_next(headers, buf, idx).some
    /\ idx' = CsvIter_next(headers, buf, idx).idx
    /\ rows' = Append(rows, CsvIter_next(headers, buf, idx).row)
    /\ batch' = batch \o RowLines(index_name, rows'[Len(rows')])
    /\ IF BatchFull(batch', batch_size)
       THEN /\ pc' = "post_connect"
            /\ phase' = "streaming"
            /\ body' = MakeBody(batch')
            /\ calls' = Append(calls, body')
       ELSE UNCHANGED <<pc, phase, body, calls>>
    /\ UNCHANGED <<probe, ping_resp, value, out, host, target, batch_size, index_name, file_exists, file, buf, headers,
                   total_docs, conn, wire, dispatched, records, warnings,
                   reported, error>>

\* lines 375, 394-397 and 404-408: the stream is exhausted
LoopEnd ==
    /\ pc = "next"
    /\ ~CsvIter_next(headers, buf, idx).some
    /\ idx' = CsvIter_next(headers, buf, idx).idx
    /\ IF NeedsFlush(batch)
       THEN /\ pc' = "post_connect"
            /\ phase' = "flushing"
            /\ body' = MakeBody(batch)
            /\ calls' = Append(calls, MakeBody(batch))
            /\ UNCHANGED reported
       ELSE /\ pc' = "done"
            /\ reported' = <<total_docs>>
            /\ UNCHANGED <<phase, body, calls>>
    /\ UNCHANGED <<probe, ping_resp, value, out, host, target, batch_size, index_name, file_exists, file, buf, headers,
                   batch, total_docs, conn, wire, dispatched, rows, records,
                   warnings, error>>

\* http_post_bulk, line 294: TcpStream::connect
PostConnect ==
    /\ pc = "post_connect"
    /\ \/ pc' = "post_write" /\ conn' = conn + 1 /\ UNCHANGED error
       \/ Fail("connect error") /\ UNCHANGED conn
    /\ UNCHANGED <<probe, ping_resp, value, out, host, target, batch_size, index_name, file_exists, file, buf, idx, headers,
                   batch, total_docs, phase, body, wire, calls,
                   dispatched, rows, records, warnings, reported>>

\* http_post_bulk, lines 310-312: write_all of the request
PostWrite ==
    /\ pc = "post_write"
    /\ \/ pc' = "post_flush" /\ wire' = Append(wire, body) /\ UNCHANGED <<conn, error>>
       \/ Fail("write error") /\ conn' = conn - 1 /\ UNCHANGED wire
    /\ UNCHANGED <<probe, ping_resp, value, out, host, target, batch_size, index_name, file_exists, file, buf, idx, headers,
                   batch, total_docs, phase, body, calls,
                   dispatched, rows, records, warnings, reported>>

\* http_post_bulk, line 313: flush
PostFlush ==
    /\ pc = "post_flush"
    /\ \/ pc' = "post_read" /\ UNCHANGED <<conn, error>>
       \/ Fail("flush error") /\ conn' = conn - 1
    /\ UNCHANGED <<probe, ping_resp, value, out, host, target, batch_size, index_name, file_exists, file, buf, idx, headers,
                   batch, total_docs, phase, body, wire, calls,
                   dispatched, rows, records, warnings, reported>>

\* PostReadErr leaving the stream open
PostReadErrLeak ==
    /\ pc = "post_read"
    /\ Fail("read error")
    /\ UNCHANGED <<conn, probe, ping_resp, value, out, host, target, batch_size, index_name,
                   file_exists, file, buf, idx, headers,
                   batch, total_docs, phase, body, wire, calls,
                   dispatched, rows, records, warnings, reported>>

\* http_post_bulk, lines 314-318: read_to_string fails
PostReadErr ==
    /\ pc = "post_read"
    /\ Fail("read error")
    /\ conn' = conn - 1
    /\ UNCHANGED <<probe, ping_resp, value, out, host, target, batch_size, index_name, file_exists, file, buf, idx, headers,
                   batch, total_docs, phase, body, wire, calls,
                   dispatched, rows, records, warnings, reported>>

\* PostReturn without batch.clear()
PostReturnKeepBatch ==
    /\ pc = "post_read"
    /\ \E resp \in BulkResponses :
         /\ warnings' = IF HasBulkErrors(resp) THEN warnings + 1 ELSE warnings
         /\ total_docs' = CountAfter(total_docs, batch, resp)
    /\ conn' = conn - 1
    /\ dispatched' = Append(dispatched, body)
    /\ IF phase = "streaming"
       THEN /\ pc' = "next"
            /\ UNCHANGED reported
       ELSE /\ pc' = "done"
            /\ reported' = <<total_docs'>>
    /\ UNCHANGED <<batch, probe, ping_resp, value, out, host, target, batch_size, index_name,
                   file_exists, file, buf, idx, headers,
                   phase, body, wire, calls, rows, records, error>>

\* http_post_bulk returns Ok(resp), then main's lines 386-390 (in the loop)
\* or 398-408 (after it)
PostReturn ==
    /\ pc = "post_read"
    /\ \E resp \in BulkResponses :
         /\ warnings' = IF HasBulkErrors(resp) THEN warnings + 1 ELSE warnings
         /\ total_docs' = CountAfter(total_docs, batch, resp)
    /\ conn' = conn - 1
    /\ dispatched' = Append(dispatched, body)
    /\ IF phase = "streaming"
       THEN /\ batch' = <<>>
            /\ pc' = "next"
            /\ UNCHANGED reported
       ELSE /\ pc' = "done"
            /\ reported' = <<total_docs'>>
            /\ UNCHANGED batch
    /\ UNCHANGED <<probe, ping_resp, value, out, host, target, batch_size, index_name, file_exists, file, buf, idx, headers,
                   phase, body, wire, calls, rows, records, error>>

----------------------------------------------------------------------------
(* The inputs of a run.                                                    *)

\* the data lines a driver input is made of: 1 and "a<LF>b" (quoted)
RowMenu == {<<49>>, <<34, 97, 10, 98, 34>>}

\* after the last line: nothing, a terminator, or a terminator and a blank line
Endings == {<<>>, <<LF>>, <<LF, LF>>}

\* the header line: h
HeaderLine == <<104>>

\* a header of three columns, two of one name: a,b,a
TableHeader == <<97, 44, 98, 44, 97>>

\* data lines shorter and longer than that header: 1 and 1,2,3,4
TableLines == {<<49>>, <<49, 44, 50, 44, 51, 44, 52>>}

\* the most data lines of a file with the three-column header
MaxTableRows == 2

TableFiles ==
    { Join(<<TableHeader>> \o ls, <<LF>>) : ls \in SeqsUpTo(TableLines, MaxTableRows) }

DriverFiles ==
    {<<>>} \cup TableFiles \cup
    { Join(<<HeaderLine>> \o ls, <<LF>>) \o e :
        ls \in SeqsUpTo(RowMenu, MaxRows), e \in Endings }

IndexNames == {<<112>>}

\* --host values: http://h:80/p, which parses, and https://h, http://h:x,
\* http://h:65536 and http://h:-1, which do not
Hosts ==
    { HttpPrefix \o <<104, 58, 56, 48, 47, 112>>,
      <<104, 116, 116, 112, 115, 58, 47, 47, 104>>,
      HttpPrefix \o <<104, 58, 120>>,
      HttpPrefix \o <<104, 58, 54, 53, 53, 51, 54>>,
      HttpPrefix \o <<104, 58, 45, 49>> }

Init ==
    /\ pc = "args"
    /\ host \in Hosts
    /\ target = NoTarget
    /\ value = <<>>
    /\ out = <<>>
    /\ batch_size \in 0..MaxBatch
    /\ index_name \in IndexNames
    /\ file_exists \in BOOLEAN
    /\ file \in DriverFiles
    /\ buf = <<>>
    /\ idx = 0
    /\ headers = <<>>
    /\ batch = <<>>
    /\ total_docs = 0
    /\ phase = "none"
    /\ body = <<>>
    /\ conn = 0
    /\ probe = "none"
    /\ ping_resp = <<>>
    /\ wire = <<>>
    /\ calls = <<>>
    /\ dispatched = <<>>
    /\ rows = <<>>
    /\ records = <<>>
    /\ warnings = 0
    /\ reported = NoReport
    /\ error = NoError

Next ==
    \/ ParseTarget
    \/ CheckFile
    \/ PingConnect
    \/ PingWrite
    \/ PingRead
    \/ OpenCsv
    \/ LoopRow
    \/ LoopEnd
    \/ PostConnect
    \/ PostWrite
    \/ PostFlush
    \/ PostReadErr
    \/ PostReturn

Spec == Init /\ [][Next]_vars

\* the steps main takes by itself, outside es_ping and http_post_bulk
MainStep == ParseTarget \/ CheckFile \/ OpenCsv \/ LoopRow \/ LoopEnd

\* the run as the process executes it: main never pauses between its own
\* steps; connect, write, flush and read have no timeout and may never return
\* the input files of the runs checked for termination: none of the data
\* lines, and the three-column ones
LiveFiles == {<<>>, HeaderLine} \cup TableFiles

LiveInit == Init /\ file \in LiveFiles

LiveSpec == LiveInit /\ [][Next]_vars /\ WF_vars(MainStep)

----------------------------------------------------------------------------
(* Tokenizer harness: repeated next_record calls on one text.              *)

\* the units a tokenizer input is made of: a , LF CR " \ and U+00E9
Units == {<<97>>, <<COMMA>>, <<LF>>, <<CR>>, <<QUOTE>>, <<BACKSLASH>>, <<195, 169>>}

\* "a,b""c" with its quotes, the example of the specification
QuotedExample == <<34, 97, 44, 98, 34, 34, 99, 34>>

\* the units of the content of a quoted field: a , LF CR \ and a doubled quote
QuotedUnits == {<<97>>, <<COMMA>>, <<LF>>, <<CR>>, <<BACKSLASH>>, <<QUOTE, QUOTE>>}

\* one quoted field, alone or after the unquoted field a
QuotedInputs ==
    { pre \o <<QUOTE>> \o Flatten(u) \o <<QUOTE>> :
        pre \in {<<>>, <<97, COMMA>>}, u \in SeqsUpTo(QuotedUnits, MaxLen) }

TokInputs ==
    {Flatten(u) : u \in SeqsUpTo(Units, MaxLen)} \cup QuotedInputs \cup {QuotedExample}

TokInit ==
    /\ pc = "tok"
    /\ file \in TokInputs
    /\ buf = file
    /\ idx = 0
    /\ records = <<>>
    /\ host = <<>>
    /\ target = NoTarget
    /\ value = <<>>
    /\ out = <<>>
    /\ batch_size = 1
    /\ index_name = <<>>
    /\ file_exists = TRUE
    /\ headers = <<>>
    /\ batch = <<>>
    /\ total_docs = 0
    /\ phase = "none"
    /\ body = <<>>
    /\ conn = 0
    /\ probe = "none"
    /\ ping_resp = <<>>
    /\ wire = <<>>
    /\ calls = <<>>
    /\ dispatched = <<>>
    /\ rows = <<>>
    /\ warnings = 0
    /\ reported = NoReport
    /\ error = NoError

\* one next_record call that returns a record
TokRecord ==
    /\ pc = "tok"
    /\ next_record(buf, idx).some
    /\ records' = Append(records, next_record(buf, idx).rec)
    /\ idx' = next_record(buf, idx).idx
    /\ UNCHANGED <<pc, probe, ping_resp, value, out, host, target, batch_size, index_name, file_exists, file, buf, headers,
                   batch, total_docs, phase, body, conn, wire, calls,
                   dispatched, rows, warnings, reported, error>>

\* the next_record call that returns None
TokEnd ==
    /\ pc = "tok"
    /\ ~next_record(buf, idx).some
    /\ pc' = "tok_done"
    /\ idx' = next_record(buf, idx).idx
    /\ UNCHANGED <<probe, ping_resp, value, out, host, target, batch_size, index_name, file_exists, file, buf, headers,
                   batch, total_docs, phase, body, conn, wire, calls,
                   dispatched, rows, records, warnings, reported, error>>

TokNext == TokRecord \/ TokEnd

TokSpec == TokInit /\ [][TokNext]_vars

----------------------------------------------------------------------------
(* Value harness: one infer_type call on one text.                         *)

\* the units a value text is made of: 0 1 - + . e t a " \ LF U+0001 space
\* and U+00E9
ValueUnits ==
    {<<ZERO>>, <<49>>, <<MINUS>>, <<PLUS>>, <<DOT>>, <<101>>, <<116>>, <<97>>,
     <<QUOTE>>, <<BACKSLASH>>, <<LF>>, <<1>>, <<SPACE>>, <<195, 169>>}

\* the most units of a value text
MaxValLen == 3

\* inf -inf +infinity Infinity nan NaN -nan true TRUE True false FALSE
\* 1e999 -1e999 1e-999 1.50 1E5 0.001 -0.0 007 12345.678
\* 9223372036854775807 -9223372036854775808
ValueWords ==
    { StrInf, <<MINUS>> \o StrInf, <<PLUS>> \o StrInfinity,
      <<73, 110, 102, 105, 110, 105, 116, 121>>,
      StrNan, StrNaN, <<MINUS>> \o StrNan,
      StrTrue, <<84, 82, 85, 69>>, <<84, 114, 117, 101>>,
      StrFalse, <<70, 65, 76, 83, 69>>,
      <<49, 101, 57, 57, 57>>, <<45, 49, 101, 57, 57, 57>>, <<49, 101, 45, 57, 57, 57>>,
      <<49, 46, 53, 48>>, <<49, 69, 53>>, <<48, 46, 48, 48, 49>>, <<45, 48, 46, 48>>,
      <<48, 48, 55>>, <<49, 50, 51, 52, 53, 46, 54, 55, 56>>,
      I64MaxDigits, <<MINUS>> \o I64MinDigits }

ValueTexts == {Flatten(u) : u \in SeqsUpTo(ValueUnits, MaxValLen)} \cup ValueWords

ValInit ==
    /\ pc = "val"
    /\ value \in ValueTexts
    /\ out = <<>>
    /\ file = <<>>
    /\ buf = <<>>
    /\ idx = 0
    /\ records = <<>>
    /\ host = <<>>
    /\ target = NoTarget
    /\ batch_size = 1
    /\ index_name = <<>>
    /\ file_exists = TRUE
    /\ headers = <<>>
    /\ batch = <<>>
    /\ total_docs = 0
    /\ phase = "none"
    /\ body = <<>>
    /\ conn = 0
    /\ probe = "none"
    /\ ping_resp = <<>>
    /\ wire = <<>>
    /\ calls = <<>>
    /\ dispatched = <<>>
    /\ rows = <<>>
    /\ warnings = 0
    /\ reported = NoReport
    /\ error = NoError

\* one call of infer_type
InferValue ==
    /\ pc = "val"
    /\ pc' = "val_done"
    /\ out' = infer_type(value)
    /\ UNCHANGED <<value, host, target, batch_size, index_name, file_exists, file,
                   buf, idx, headers, batch, total_docs, phase, body, conn,
                   probe, ping_resp, wire, calls, dispatched, rows, records,
                   warnings, reported, error>>

ValNext == InferValue

ValSpec == ValInit /\ [][ValNext]_vars

----------------------------------------------------------------------------
(* Properties.  Helpers that read a payload as the peer would.             *)

\* the positions of the line feeds of a text
LineFeeds(b) == {i \in 1..Len(b) : b[i] = LF}

\* the k-th line feed of b, 0 for k = 0
LineFeedAt(b, k) ==
    IF k = 0 THEN 0
    ELSE CHOOSE x \in LineFeeds(b) :
            Cardinality({y \in LineFeeds(b) : y <= x}) = k

\* the lines of a text, each ended by a line feed (a last line without one
\* counts too)
PayloadLines(b) ==
    LET n == Cardinality(LineFeeds(b))
    IN  [k \in 1..n |-> SubSeq(b, LineFeedAt(b, k - 1) + 1, LineFeedAt(b, k) - 1)]
        \o (IF LineFeedAt(b, n) < Len(b)
            THEN <<SubSeq(b, LineFeedAt(b, n) + 1, Len(b))>>
            ELSE <<>>)

\* the number of documents of a payload: two lines each
DocsOfPayload(b) == Len(PayloadLines(b)) \div 2

RECURSIVE SumDocs(_)
SumDocs(ps) == IF ps = <<>> THEN 0 ELSE DocsOfPayload(Head(ps)) + SumDocs(Tail(ps))

\* C1: every payload handed to the transport holds at most batch_size
\* documents and at least one, and every payload before the latest one holds
\* exactly batch_size, for every batch size the command line accepts.
C1_PayloadSizes ==
    \A k \in 1..Len(calls) :
        /\ DocsOfPayload(calls[k]) >= 1
        /\ DocsOfPayload(calls[k]) <= batch_size
        /\ k < Len(calls) => DocsOfPayload(calls[k]) = batch_size

\* C1 with the batch size 0 left out, which the code does respect
C1_PayloadSizesPositive == batch_size >= 1 => C1_PayloadSizes

\* C1: 5 documents and batch size 2 give 3 sends of 2, 2 and 1 documents
C1_Example ==
    (pc = "done" /\ batch_size = 2 /\ Len(rows) = 5) =>
        /\ Len(calls) = 3
        /\ DocsOfPayload(calls[1]) = 2
        /\ DocsOfPayload(calls[2]) = 2
        /\ DocsOfPayload(calls[3]) = 1

C1_ExampleReached == pc = "done" /\ batch_size = 2 /\ Len(rows) = 5

----------------------------------------------------------------------------
PostSteps == {"post_connect", "post_write", "post_flush", "post_read"}
SendErrors == {"connect error", "write error", "flush error", "read error"}

C2_Inv ==
    /\ total_docs = SumDocs(dispatched)
    /\ pc = "done" => reported = <<total_docs>> /\ total_docs = Len(rows)

C2_Step ==
    /\ total_docs' >= total_docs
    /\ total_docs' # total_docs =>
         /\ pc = "post_read"
         /\ error' = NoError
         /\ dispatched' = Append(dispatched, body)

\* C2: total_docs never decreases, changes only in the step in which a bulk
\* send returns successfully, always equals the number of documents of the
\* payloads dispatched so far, and the count reported at Done is the number
\* of rows the record stream produced.
C2_TotalDocs == []C2_Inv /\ [][C2_Step]_vars

C2_Reached == pc = "done" /\ reported = <<5>> /\ Len(dispatched) = 3

C3_Inv ==
    /\ error \in SendErrors =>
         /\ pc = "failed"
         /\ reported = NoReport
         /\ Len(calls) = Len(dispatched) + 1
    /\ reported # NoReport =>
         /\ pc = "done"
         /\ error = NoError
         /\ dispatched = calls

C3_Step == pc = "failed" => UNCHANGED vars

\* C3: a failed bulk send (connect, write, flush or read) makes the run Failed
\* in that very step; the failed payload is the last one handed to the
\* transport, nothing happens afterwards and no count is reported; a count is
\* reported only when every send returned successfully.
C3_SendFailureIsFatal == []C3_Inv /\ [][C3_Step]_vars

C3_Reached ==
    /\ pc = "failed" /\ error = "flush error"
    /\ Len(dispatched) = 1 /\ Len(calls) = 2 /\ idx < Len(buf)

PreProbe == pc \in {"args", "start", "ping_connect", "ping_write", "ping_read"}

\* nothing of the pipeline has happened: no input read, no payload built or sent
Untouched ==
    /\ buf = <<>> /\ idx = 0 /\ headers = <<>> /\ rows = <<>>
    /\ batch = <<>> /\ body = <<>> /\ calls = <<>> /\ wire = <<>>
    /\ dispatched = <<>> /\ total_docs = 0

\* es_ping returned true
ProbeSucceeded == probe = "answered" /\ StartsWith(ping_resp, StatusOk)

\* C4: until the probe has succeeded nothing of the pipeline has happened, and
\* a probe that fails (refused, write or read failure, status other than 200)
\* ends the run with the connectivity error before the input is tokenized and
\* before any payload is built or posted.
C4_ProbeFirst ==
    /\ PreProbe => Untouched
    /\ (probe # "none" /\ ~ProbeSucceeded) =>
         /\ pc = "failed" /\ error = "Cannot connect to ES"
         /\ Untouched /\ reported = NoReport
    /\ (pc \notin {"args", "start", "failed"} /\ ~PreProbe) => ProbeSucceeded

C4_Reached ==
    /\ pc = "failed" /\ probe = "answered" /\ ~StartsWith(ping_resp, StatusOk)
    /\ ping_resp # <<>> /\ Len(file) > 2 /\ file_exists

Min(a, b) == IF a < b THEN a ELSE b
Max(a, b) == IF a > b THEN a ELSE b

RECURSIVE ExpectedPayloads(_, _, _)
\* the payloads of a run without any trouble: the rows in groups of size
ExpectedPayloads(name, rs, size) ==
    IF rs = <<>> THEN <<>>
    ELSE LET n == Min(Max(size, 1), Len(rs))
         IN  <<MakeBody(Flatten([i \in 1..n |-> RowLines(name, rs[i])]))>>
             \o ExpectedPayloads(name, SubSeq(rs, n + 1, Len(rs)), size)

C5_Inv ==
    pc = "done" =>
      /\ reported = <<Len(rows)>>
      /\ calls = ExpectedPayloads(index_name, rows, batch_size)
      /\ dispatched = calls

C5_Step ==
    warnings' > warnings =>
      /\ pc' \in {"next", "done"}
      /\ error' = NoError
      /\ total_docs' = total_docs + DocsOfPayload(body)
      /\ dispatched' = Append(dispatched, body)

\* C5: a response with "errors":true only adds a warning: the run goes on,
\* the payload's documents are counted, and the payloads of a finished run are
\* those of the rows alone, whatever the responses were.
C5_BulkErrorsNotFatal == []C5_Inv /\ [][C5_Step]_vars

C5_Reached ==
    pc = "done" /\ warnings >= 2 /\ Len(calls) = 3 /\ reported = <<5>>

\* the text without one final line terminator
DropFinalTerminator(f) ==
    IF Len(f) >= 2 /\ f[Len(f) - 1] = CR /\ f[Len(f)] = LF THEN SubSeq(f, 1, Len(f) - 2)
    ELSE IF f # <<>> /\ f[Len(f)] \in {LF, CR} THEN SubSeq(f, 1, Len(f) - 1)
    ELSE f

\* an empty file, or one line only
NoDataRecords(f) ==
    \A i \in 1..Len(DropFinalTerminator(f)) : f[i] \notin {LF, CR}

C6_Inv ==
    NoDataRecords(file) =>
      /\ rows = <<>> /\ calls = <<>> /\ wire = <<>>
      /\ pc \notin PostSteps
      /\ pc = "done" => reported = <<0>>

C6_Step ==
    (NoDataRecords(file) /\ pc = "next") => (pc' = "done" /\ reported' = <<0>>)

\* C6: an input without data records (empty, or a header only) never leads to
\* a bulk send, and once the probe succeeded and the file is read the run
\* ends Done with the count 0.
C6_NoRecordsNoSend == []C6_Inv /\ [][C6_Step]_vars

C6_Reached ==
    /\ pc = "done" /\ reported = <<0>> /\ ProbeSucceeded
    /\ file = HeaderLine \o <<LF>>

\* a line that is one JSON object and not the action header
IsDocumentLine(l, name) ==
    Len(l) >= 2 /\ l[1] = 123 /\ l[Len(l)] = 125 /\ l # ActionHeader(name)

WellFormedPayload(b, name) ==
    /\ b # <<>>
    /\ b[Len(b)] = LF
    /\ Len(b) >= 2 /\ b[Len(b) - 1] # LF
    /\ LET ls == PayloadLines(b)
       IN  /\ Len(ls) > 0 /\ Len(ls) % 2 = 0
           /\ b = Join(ls, <<LF>>) \o <<LF>>
           /\ \A i \in 1..Len(ls) :
                IF i % 2 = 1 THEN ls[i] = ActionHeader(name)
                ELSE IsDocumentLine(ls[i], name)

C7_Inv ==
    /\ \A k \in 1..Len(calls) : WellFormedPayload(calls[k], index_name)
    /\ \A k \in 1..Len(wire) : wire[k] = calls[k]
    /\ phase = "flushing" =>
         /\ batch # <<>>
         /\ idx >= Len(buf)
         /\ ~CsvIter_next(headers, buf, idx).some

C7_Step == (pc = "post_read" /\ pc' = "next") => batch' = <<>>

\* C7: every payload handed to the transport is non-empty, has an even number
\* of lines, action header and document line in turn, joined by newlines with
\* exactly one trailing newline; the batch is empty right after a full-batch
\* send; the partial batch is sent only once the stream is exhausted and only
\* when it is not empty.
C7_PayloadShape == []C7_Inv /\ [][C7_Step]_vars

C7_Reached ==
    /\ pc = "done" /\ phase = "flushing" /\ Len(calls) >= 2
    /\ DocsOfPayload(calls[1]) = 2
    /\ Contains(calls[1], <<BACKSLASH, 110>>)

----------------------------------------------------------------------------
HasQuote(b) == \E i \in 1..Len(b) : b[i] = QUOTE

RECURSIVE NormaliseTerminators(_)
\* the text with every CR LF and every lone CR replaced by LF
NormaliseTerminators(b) ==
    IF b = <<>> THEN <<>>
    ELSE IF Len(b) >= 2 /\ b[1] = CR /\ b[2] = LF
         THEN <<LF>> \o NormaliseTerminators(SubSeq(b, 3, Len(b)))
    ELSE IF b[1] = CR THEN <<LF>> \o NormaliseTerminators(Tail(b))
    ELSE <<b[1]>> \o NormaliseTerminators(Tail(b))

\* fields joined by commas, records by newlines
Rejoin(recs) ==
    Join([k \in 1..Len(recs) |-> Join(recs[k], <<COMMA>>)], <<LF>>)

\* C8: a text without a double quote, tokenized by repeated next_record calls
\* and rejoined, is the original text up to its line terminators: each CR LF
\* or CR become LF, with or without the terminator of the last line.
C8_RoundTrip ==
    (pc = "tok_done" /\ ~HasQuote(buf)) =>
        Rejoin(records) \in { NormaliseTerminators(buf),
                              DropFinalTerminator(NormaliseTerminators(buf)) }

\* C8 for the texts of one-byte chars that do not end with a terminator
C8_RoundTripInner ==
    (/\ pc = "tok_done" /\ ~HasQuote(buf)
     /\ \A i \in 1..Len(buf) : buf[i] < 128
     /\ (buf # <<>> => buf[Len(buf)] \notin {LF, CR})) =>
        Rejoin(records) = NormaliseTerminators(buf)

RECURSIVE AllRows(_, _, _)
\* every row CsvIter yields from position at on
AllRows(hdrs, bytes, at) ==
    IF CsvIter_next(hdrs, bytes, at).some
    THEN <<CsvIter_next(hdrs, bytes, at).row>>
         \o AllRows(hdrs, bytes, CsvIter_next(hdrs, bytes, at).idx)
    ELSE <<>>

\* the rows of a whole file
RowsOf(f) == AllRows(from_reader(f).headers, f, from_reader(f).idx)

\* the file ends with a line terminator followed by one more
EndsWithBlankLine(f) == Len(f) >= 2 /\ f[Len(f)] = LF /\ f[Len(f) - 1] = LF

WithoutLastByte(f) == SubSeq(f, 1, Len(f) - 1)

\* C9: a blank line after the last data line is the end of the data: the rows
\* of the run are those of the same file without the blank line.
C9_TrailingBlankLine ==
    (/\ pc = "done" /\ EndsWithBlankLine(file)
     /\ RowsOf(WithoutLastByte(file)) # <<>>) =>
        rows = RowsOf(WithoutLastByte(file))

RECURSIVE PairedQuotes(_)
\* every quote of s is one of a pair
PairedQuotes(s) ==
    IF s = <<>> THEN TRUE
    ELSE IF s[1] = QUOTE
         THEN Len(s) >= 2 /\ s[2] = QUOTE /\ PairedQuotes(SubSeq(s, 3, Len(s)))
    ELSE PairedQuotes(Tail(s))

RECURSIVE Undouble(_)
\* s with each pair of quotes replaced by one quote
Undouble(s) ==
    IF s = <<>> THEN <<>>
    ELSE IF s[1] = QUOTE THEN <<QUOTE>> \o Undouble(SubSeq(s, 3, Len(s)))
    ELSE <<s[1]>> \o Undouble(Tail(s))

Inner(q) == SubSeq(q, 2, Len(q) - 1)

\* q is one quoted field: a quote, one-byte chars with every quote doubled, a quote
IsQuotedField(q) ==
    /\ Len(q) >= 2 /\ q[1] = QUOTE /\ q[Len(q)] = QUOTE
    /\ PairedQuotes(Inner(q))
    /\ \A i \in 1..Len(q) : q[i] < 128

CountOf(c, s) == Cardinality({i \in 1..Len(s) : s[i] = c})

AdjacentQuotes(b) == \E i \in 1..(Len(b) - 1) : b[i] = QUOTE /\ b[i + 1] = QUOTE

\* C10: a quoted field keeps its commas, line feeds, carriage returns and
\* backslashes, and each doubled quote in it is one quote of the field; a
\* single quote only toggles the mode, so a text without two quotes in a row
\* gives fields without quotes; no backslash is ever dropped or added.
C10_Quoting ==
    pc = "tok_done" =>
      /\ (IsQuotedField(buf) /\ Inner(buf) # <<>>) =>
            records = << <<Undouble(Inner(buf))>> >>
      /\ (Len(buf) > 2 /\ buf[1] = 97 /\ buf[2] = COMMA
          /\ IsQuotedField(SubSeq(buf, 3, Len(buf)))) =>
            records = << << <<97>>, Undouble(Inner(SubSeq(buf, 3, Len(buf)))) >> >>
      /\ ~AdjacentQuotes(buf) =>
            \A k \in 1..Len(records) : \A j \in 1..Len(records[k]) :
                ~HasQuote(records[k][j])
      /\ CountOf(BACKSLASH, buf) = CountOf(BACKSLASH, Flatten(Flatten(records)))

\* "a,b""c" has become the single field a,b"c
C10_Reached ==
    /\ pc = "tok_done" /\ buf = QuotedExample
    /\ records = << << <<97, 44, 98, 34, 99>> >> >>

----------------------------------------------------------------------------
\* the lines of a text once its terminators are normalised
TextLines(b) == PayloadLines(NormaliseTerminators(b))

\* b ends with a line terminator
EndsWithTerminator(b) == b # <<>> /\ b[Len(b)] \in {LF, CR}

\* C11: the empty text gives no record; a text without quotes gives one record
\* per line; each blank line (a terminator with nothing before it) gives a
\* record of exactly one empty field, wherever it stands; and the text after
\* the last terminator gives a final record.
C11_EdgeCases ==
    (pc = "tok_done" /\ ~HasQuote(buf)) =>
      /\ buf = <<>> => records = <<>>
      /\ Len(records) = Len(TextLines(buf))
      /\ \A k \in 1..Len(records) :
            TextLines(buf)[k] = <<>> => records[k] = << <<>> >>
      /\ (buf # <<>> /\ ~EndsWithTerminator(buf)) =>
            records[Len(records)] # <<>>

\* C11 for the texts that do not end with a terminator
C11_EdgeCasesInner == ~EndsWithTerminator(buf) => C11_EdgeCases

----------------------------------------------------------------------------
RECURSIVE AllRecords(_, _)
\* every record the tokenizer yields from position at on
AllRecords(bytes, at) ==
    IF next_record(bytes, at).some
    THEN <<next_record(bytes, at).rec>> \o AllRecords(bytes, next_record(bytes, at).idx)
    ELSE <<>>

\* the records of a file after its header record
DataRecords(f) == AllRecords(f, from_reader(f).idx)

\* the document lines of a payload: every second line
DocLinesOf(b) ==
    LET ls == PayloadLines(b)
    IN  [k \in 1..(Len(ls) \div 2) |-> ls[2 * k]]

\* the document lines of a sequence of payloads, in order
DocLinesOfAll(ps) == Flatten([k \in 1..Len(ps) |-> DocLinesOf(ps[k])])

\* the member a document has for column j of the header, given the record
ExpectedMember(hdrs, rec, j) ==
    <<QUOTE>> \o json_escape(hdrs[j]) \o <<QUOTE, 58>>
    \o (IF j <= Len(rec) THEN infer_type(Trim(rec[j])) ELSE StrNull)

\* the document of a record: one member per header column, in header order
ExpectedDoc(hdrs, rec) ==
    <<123>> \o Join([j \in 1..Len(hdrs) |-> ExpectedMember(hdrs, rec, j)], <<COMMA>>)
    \o <<125>>

\* C12: every document sent has exactly one member per header column, in
\* header order, the value of column j being field j of the record: a record
\* shorter than the header gets null for its missing trailing columns, the
\* fields of a record beyond the header are dropped, and columns of one
\* name are separate members.
C12_PositionalJoin ==
    LET docs == DocLinesOfAll(calls)
        recs == DataRecords(file)
        hdrs == from_reader(file).headers
    IN  /\ Len(docs) <= Len(recs)
        /\ \A k \in 1..Len(docs) : docs[k] = ExpectedDoc(hdrs, recs[k])

\* a file with the header a,b,a, a record of one field and one of four, sent
C12_Reached ==
    /\ pc = "done"
    /\ headers = <<<<97>>, <<98>>, <<97>>>>
    /\ Len(DocLinesOfAll(calls)) = 2
    /\ Len(DataRecords(file)[1]) = 1
    /\ Len(DataRecords(file)[2]) = 4

----------------------------------------------------------------------------
PingSteps == {"ping_connect", "ping_write", "ping_read"}

\* es_ping has returned true: main goes on to open the input
PingTrue == pc \in PingSteps /\ pc' = "open_csv"

\* es_ping has returned false: main fails with the connectivity error
PingFalse == pc \in PingSteps /\ pc' = "failed" /\ error' = "Cannot connect to ES"

C13_Inv ==
    /\ probe \in {"refused", "write_failed", "read_failed"} =>
          pc = "failed" /\ error = "Cannot connect to ES"
    /\ probe = "answered" =>
          (error = "Cannot connect to ES" <=> ~StartsWith(ping_resp, StatusOk))
    /\ error = "Cannot connect to ES" => probe # "none"

C13_Step ==
    /\ (pc \in PingSteps /\ pc' \notin PingSteps) => PingTrue \/ PingFalse
    /\ PingTrue <=>
          /\ pc = "ping_read" /\ conn = 1
          /\ probe' = "answered"
          /\ StartsWith(ping_resp', StatusOk)
    /\ PingFalse <=>
          \/ pc = "ping_connect" /\ probe' = "refused"
          \/ pc = "ping_write" /\ probe' = "write_failed"
          \/ pc = "ping_read" /\ probe' = "read_failed"
          \/ pc = "ping_read" /\ probe' = "answered" /\ ~StartsWith(ping_resp', StatusOk)

\* C13: the probe returns true exactly when the connection was opened, the
\* request written, the response read to the end and the response begins with
\* HTTP/1.1 200; a refused connection, a failed write, a failed read and any
\* other response make it return false, and it returns nothing else.
C13_PingResult == []C13_Inv /\ [][C13_Step]_vars

\* the probe was answered with a 200 of another protocol version, and failed
C13_Reached ==
    /\ pc = "failed" /\ probe = "answered"
    /\ StartsWith(ping_resp, <<72, 84, 84, 80, 47, 49, 46, 48, 32, 50, 48, 48>>)
    /\ error = "Cannot connect to ES"

----------------------------------------------------------------------------
\* the port text of a URL: what stands between the first colon after the
\* scheme and the first slash after it, with Absent for no colon
Absent == <<COLON>>
PortText(url) ==
    LET rest == SubSeq(url, Len(HttpPrefix) + 1, Len(url))
        sl == FirstIn(rest, {SLASH}, 1)
        authority == IF sl = 0 THEN rest ELSE SubSeq(rest, 1, sl - 1)
        co == FirstIn(authority, {COLON}, 1)
    IN  IF co = 0 THEN Absent ELSE SubSeq(authority, co + 1, Len(authority))

\* the URL has another scheme than http://, or a port that is no number of
\* 16 bits
InvalidUrl(url) ==
    \/ ~StartsWith(url, HttpPrefix)
    \/ /\ PortText(url) # Absent
       /\ \/ PortText(url) = <<>>
          \/ \E i \in 1..Len(PortText(url)) :
                ~IsDigit(PortText(url)[i]) /\ ~(i = 1 /\ PortText(url)[i] = PLUS)
          \/ PortText(url) = <<PLUS>>
          \/ Len(StripLeadingZeros(Unsigned(PortText(url)))) > 5
          \/ /\ Len(StripLeadingZeros(Unsigned(PortText(url)))) = 5
             /\ DigitsValue(StripLeadingZeros(Unsigned(PortText(url)))) > 65535

StartupErrors == {"Only http:// supported", "Invalid port", "CSV file not found"}

C14_Inv ==
    /\ (InvalidUrl(host) \/ ~file_exists) =>
          /\ pc \in {"args", "start", "failed"}
          /\ conn = 0 /\ probe = "none"
          /\ calls = <<>> /\ wire = <<>> /\ dispatched = <<>>
          /\ reported = NoReport
    /\ error \in StartupErrors => InvalidUrl(host) \/ ~file_exists

C14_Step ==
    /\ (pc = "args" /\ InvalidUrl(host)) =>
          pc' = "failed" /\ error' \in {"Only http:// supported", "Invalid port"}
    /\ (pc = "start" /\ ~file_exists) =>
          pc' = "failed" /\ error' = "CSV file not found"

\* C14: with an invalid URL (another scheme than http://, a port that does
\* not parse) or a missing input file the run fails in its first steps, and
\* in no state of such a run is a connection open, the probe started or a
\* payload handed to the transport.
C14_NoConnectionAtStartup == []C14_Inv /\ [][C14_Step]_vars

\* the run failed on the port 65536 although the input file exists
C14_Reached ==
    /\ pc = "failed" /\ error = "Invalid port" /\ file_exists
    /\ PortText(host) = <<54, 53, 53, 51, 54>>

----------------------------------------------------------------------------
(* JSON scalar literals (RFC 8259).                                        *)

\* t without a leading minus
Magnitude(t) == IF t # <<>> /\ t[1] = MINUS THEN Tail(t) ELSE t

\* digits without a superfluous leading zero
IsJsonDigits(d) == d # <<>> /\ AllDigits(d) /\ (Len(d) > 1 => d[1] # ZERO)

\* the JSON grammar of an integer: [-] digits
IsJsonInteger(t) == IsJsonDigits(Magnitude(t))

\* the JSON grammar of a number: [-] int [. digits] [(e|E) [+|-] digits]
IsJsonNumber(t) ==
    LET u == Magnitude(t)
        e == FirstIn(u, {69, 101}, 1)
        m == IF e = 0 THEN u ELSE SubSeq(u, 1, e - 1)
        x == IF e = 0 THEN <<>> ELSE SubSeq(u, e + 1, Len(u))
        d == FirstIn(m, {DOT}, 1)
        int == IF d = 0 THEN m ELSE SubSeq(m, 1, d - 1)
        frac == IF d = 0 THEN <<>> ELSE SubSeq(m, d + 1, Len(m))
    IN  /\ IsJsonDigits(int)
        /\ d # 0 => (frac # <<>> /\ AllDigits(frac))
        /\ e # 0 => (Unsigned(x) # <<>> /\ AllDigits(Unsigned(x)))

IsHex(b) == b \in 48..57 \/ b \in 65..70 \/ b \in 97..102

RECURSIVE JsonCharsFrom(_, _)
\* the bytes of b from position i on are JSON string characters: no raw
\* quote, no raw control character, every backslash starts an escape
JsonCharsFrom(b, i) ==
    IF i > Len(b) THEN TRUE
    ELSE IF b[i] = BACKSLASH
         THEN IF i + 1 <= Len(b) /\ b[i + 1] \in {34, 92, 47, 98, 102, 110, 114, 116}
              THEN JsonCharsFrom(b, i + 2)
              ELSE /\ i + 5 <= Len(b)
                   /\ b[i + 1] = 117
                   /\ \A j \in 2..5 : IsHex(b[i + j])
                   /\ JsonCharsFrom(b, i + 6)
    ELSE b[i] # QUOTE /\ b[i] >= 32 /\ JsonCharsFrom(b, i + 1)

\* the JSON grammar of a string
IsJsonString(t) ==
    /\ Len(t) >= 2 /\ t[1] = QUOTE /\ t[Len(t)] = QUOTE
    /\ JsonCharsFrom(SubSeq(t, 2, Len(t) - 1), 1)

IsJsonScalar(t) ==
    t \in {StrNull, StrTrue, StrFalse} \/ IsJsonNumber(t) \/ IsJsonString(t)


\* the number a decimal text denotes: sign, significant digits d and the
\* position k of the decimal point, the value being 0.d * 10^k
DecimalOf(t) ==
    LET p == FloatParts(Unsigned(t))
        lead == StripLeadingZeros(p.int \o p.frac)
        d == StripTrailingZeros(lead)
        k == Len(lead) + (IF p.has_exp THEN ExpValue(p.exp) ELSE 0) - Len(p.frac)
    IN  [neg |-> IsNegative(t), d |-> d, k |-> IF d = <<>> THEN 0 ELSE k]

\* the decimal is zero as an f64: zero, or below the least subnormal
IsF64Zero(x) == x.d = <<>> \/ x.k < -323

\* two decimal texts denote one f64
SameNumber(a, b) ==
    \/ DecimalOf(a) = DecimalOf(b)
    \/ /\ IsF64Zero(DecimalOf(a)) /\ IsF64Zero(DecimalOf(b))
       /\ DecimalOf(a).neg = DecimalOf(b).neg

\* infer_type takes its float branch on s
FloatBranch(s) == s # <<>> /\ ~IsI64(s) /\ IsF64(s)

\* C15: whatever the text, the literal infer_type returns is a valid JSON
\* scalar (null, a number, true, false or a string), and every text the float
\* branch accepts comes out as a JSON number that denotes the same number.
C15_ValidLiteral ==
    pc = "val_done" =>
      /\ IsJsonScalar(out)
      /\ FloatBranch(value) => (IsJsonNumber(out) /\ SameNumber(value, out))

\* the float branch gives no finite number for s
NonFinite(s) ==
    FloatBranch(s) /\ F64ToString(s) \in {StrInf, <<MINUS>> \o StrInf, StrNaN}

\* C15 for the texts whose float is finite
C15_ValidLiteralFinite == ~NonFinite(value) => C15_ValidLiteral

----------------------------------------------------------------------------
\* the canonical decimal literal of an integer: no plus, no leading zero, no
\* negative zero
IsCanonicalInteger(t) ==
    IsJsonInteger(t) /\ (IsNegative(t) => Magnitude(t) # <<ZERO>>)

\* two integer texts denote one integer
SameInteger(a, b) ==
    /\ StripLeadingZeros(Unsigned(a)) = StripLeadingZeros(Unsigned(b))
    /\ StripLeadingZeros(Unsigned(a)) # <<>> => IsNegative(a) = IsNegative(b)

\* the literal of the float a text denotes: inf, -inf or NaN, or else a
\* decimal without exponent for the same number
IsFloatLiteralOf(s, t) ==
    IF IsNanText(Unsigned(s)) THEN t = StrNaN
    ELSE IF IsInfText(Unsigned(s)) THEN Magnitude(t) = StrInf /\ IsNegative(t) = IsNegative(s)
    ELSE \/ Magnitude(t) = StrInf /\ IsNegative(t) = IsNegative(s) /\ DecimalOf(s).k >= 309
         \/ IsJsonNumber(t) /\ FirstIn(t, {69, 101}, 1) = 0 /\ SameNumber(s, t)

\* C16: infer_type returns for every text, and decides in a fixed order: the
\* empty text gives null; else a text that parses as a 64-bit integer gives
\* the canonical literal of that integer; else a text that parses as a float
\* gives the literal of that float; else true or false in any case gives the
\* boolean; every other text gives the quoted, escaped string.
C16_Precedence ==
    pc = "val_done" =>
      IF value = <<>> THEN out = StrNull
      ELSE IF IsI64(value) THEN IsCanonicalInteger(out) /\ SameInteger(value, out)
      ELSE IF IsF64(value) THEN IsFloatLiteralOf(value, out)
      ELSE IF Lower(value) \in {StrTrue, StrFalse} THEN out = Lower(value)
      ELSE /\ IsJsonString(out)
           /\ out = <<QUOTE>> \o json_escape(value) \o <<QUOTE>>

\* -0 is an integer and a float: the integer branch has decided
C16_Reached == pc = "val_done" /\ value = <<MINUS, ZERO>> /\ out = <<ZERO>>

----------------------------------------------------------------------------
\* the positions at which a transport call holds its connection
InFlight == {"ping_write", "ping_read", "post_write", "post_flush", "post_read"}

C17_Inv ==
    /\ conn \in {0, 1}
    /\ conn = 1 <=> pc \in InFlight

C17_Step ==
    /\ (pc \in PingSteps \cup PostSteps) =>
          idx' = idx /\ rows' = rows /\ headers' = headers /\ buf' = buf
    /\ (idx' # idx \/ rows' # rows) => conn = 0 /\ conn' = 0
    /\ (pc \in InFlight /\ pc' \notin InFlight) => conn' = 0

\* C17: at most one connection is open at any time, and one is open only
\* inside a transport call; no record is pulled from the record stream while
\* a call is under way; and when a call has returned, with a result or with
\* an error, no connection is open.
C17_OneConnection == []C17_Inv /\ [][C17_Step]_vars

\* a bulk send failed in its read after an earlier one had succeeded
C17_Reached ==
    /\ pc = "failed" /\ error = "read error" /\ conn = 0
    /\ Len(dispatched) >= 1 /\ Len(wire) = Len(dispatched) + 1

----------------------------------------------------------------------------
\* the documents of the data records of a file, in input order
EncodedRecords(f) ==
    LET rs == RowsOf(f)
    IN  [k \in 1..Len(rs) |-> dict_to_json(rs[k])]

\* the payloads written to a socket are the first ones handed to the transport
IsPrefix(a, b) == Len(a) <= Len(b) /\ a = SubSeq(b, 1, Len(a))

C18_Inv ==
    LET docs == DocLinesOfAll(calls)
        all == EncodedRecords(file)
    IN  /\ IsPrefix(docs, all)
        /\ IsPrefix(wire, calls) /\ IsPrefix(dispatched, wire)
        /\ \A k \in 1..Len(calls) :
              LET ls == PayloadLines(calls[k]) IN Len(ls) = 2 * (Len(ls) \div 2)
        /\ pc = "done" => docs = all /\ dispatched = calls

C18_Step ==
    \/ calls' = calls
    \/ /\ Len(calls') = Len(calls) + 1
       /\ IsPrefix(calls, calls')
       /\ DocsOfPayload(calls'[Len(calls')]) >= 1

\* C18: in every state the document lines of the payloads handed to the
\* transport so far, in send order, are the documents of the first data
\* records of the input, one position each (none twice, none skipped); a
\* payload, once sent, stays as it was; and at Done they are the documents of
\* all data records and every payload was dispatched.
C18_ExactlyOnceInOrder == []C18_Inv /\ [][C18_Step]_vars

\* four documents went out in two payloads or more
C18_Reached ==
    /\ pc = "done" /\ Len(calls) >= 2
    /\ Len(DocLinesOfAll(calls)) = 4 /\ Len(EncodedRecords(file)) = 4

----------------------------------------------------------------------------
Terminated == pc \in {"done", "failed"}

\* main is inside es_ping or http_post_bulk
InTransport == pc \in PingSteps \cup PostSteps

C19_Inv ==
    /\ idx <= Len(buf)
    /\ Len(rows) <= idx

C19_Step ==
    /\ idx' >= idx
    /\ Len(rows') > Len(rows) => idx' > idx
    /\ headers' # headers => idx' > idx

\* C19: the read position never passes the end of the buffer and moves
\* forward with every record returned, so the records are fewer than the
\* bytes; and a run in which no transport call lasts for ever reaches Done
\* or Failed: a run that does not end stays inside one transport call.
C19_Terminates ==
    /\ []C19_Inv
    /\ [][C19_Step]_vars
    /\ ([]<>~InTransport) => <>Terminated

\* a run of two records and two sends has ended
C19_Reached ==
    /\ pc = "done" /\ idx = Len(buf) /\ Len(rows) = 2 /\ Len(dispatched) = 2
    /\ batch_size = 1

====
